---- MODULE Spec2Model ----
(***************************************************************************)
(* Model of the Digimon evolution-line service (src/digimon_service.py).   *)
(*                                                                         *)
(* The table (self.df) is a sequence of rows; every cell holds a Python    *)
(* value, modelled as a tagged record: a str is a sequence of one-char     *)
(* strings, a number an integer, an empty cell NaN.  The pure methods of   *)
(* DigimonEvolutionService are operators over the table; the actions call  *)
(* them on a loaded service and record what they returned in `last`.       *)
(***************************************************************************)
EXTENDS Integers, Sequences, FiniteSets, TLC

VARIABLES
    df,      \* self.df: the loaded DataFrame, a sequence of rows
    last,    \* the last call made on the service and what it returned
    pinned,  \* observer: one earlier get_evolution_line call and its result
    source,  \* the Excel file, as pd.read_excel finds it
    service, \* api.py's global `service`: None or the instance
    started  \* whether api.py's startup event has run

vars == <<df, last, pinned, source, service, started>>

\* The state of the serving process around the service instance.
api == <<source, service, started>>

----------------------------------------------------------------------------
(* Bounds *)

\* At most this many rows in the loaded table.
MaxRows == 2

----------------------------------------------------------------------------
(* Python values *)

None == [t |-> "None"]
NaN == [t |-> "nan"]
PyStr(s) == [t |-> "str", v |-> s]
PyInt(n) == [t |-> "int", v |-> n]

\* pd.notna(value)
notna(value) == value.t \notin {"nan", "None"}

\* str(value), for the str cells of the table
str(value) == CASE value.t = "str" -> value

\* int(value), for the integral numbers of the table
int(value) == CASE value.t = "int" -> PyInt(value.v)

LowerChar(c) ==
    CASE c = "A" -> "a"
      [] c = "B" -> "b"
      [] c = "C" -> "c"
      [] OTHER -> c

\* s.lower()
lower(s) == PyStr([i \in 1..Len(s.v) |-> LowerChar(s.v[i])])

RECURSIVE lstrip(_)
lstrip(s) == IF s # <<>> /\ Head(s) = " " THEN lstrip(Tail(s)) ELSE s

RECURSIVE rstrip(_)
rstrip(s) ==
    IF s # <<>> /\ s[Len(s)] = " " THEN rstrip(SubSeq(s, 1, Len(s) - 1)) ELSE s

\* s.strip()
strip(s) == PyStr(lstrip(rstrip(s.v)))

----------------------------------------------------------------------------
(* The tables the service may have loaded *)

Names == {PyStr(<<"a">>), PyStr(<<"A">>), PyStr(<<"b">>)}
Attributes == {PyStr(<<"V">>)}
\* Number and Stage are columns the code copies and never compares: two forms,
\* one of them without a number, tell the rows of one name apart.
Forms ==
    {[Number |-> NaN, Stage |-> PyStr(<<"I", "I">>)],
     [Number |-> PyInt(0), Stage |-> PyStr(<<"I", "V">>)]}
\* The successor cells of a row: the Evolutions column, then the overflow
\* ("Unnamed: k") columns in column order.  No successor (an empty and a blank
\* cell); one in the overflow column only, after a blank; one name twice, in
\* two casings and with a trailing blank; two different names.
SuccessorCells ==
    {[Evolutions |-> NaN, Unnamed |-> <<PyStr(<<" ">>)>>],
     [Evolutions |-> NaN, Unnamed |-> <<PyStr(<<" ", "a">>)>>],
     [Evolutions |-> PyStr(<<"A", " ">>), Unnamed |-> <<PyStr(<<" ", "a">>)>>],
     [Evolutions |-> PyStr(<<"b">>), Unnamed |-> <<PyStr(<<" ", "a">>)>>]}

Rows ==
    {[Number |-> f.Number, Name |-> n, Stage |-> f.Stage, Attribute |-> a,
      Evolutions |-> c.Evolutions, Unnamed |-> c.Unnamed] :
        f \in Forms, n \in Names, a \in Attributes, c \in SuccessorCells}

Tables == UNION {[1..n -> Rows] : n \in 0..MaxRows}

\* The names callers ask about.
Queries ==
    {PyStr(<<"a">>), PyStr(<<"A">>), PyStr(<<"b">>), PyStr(<<"B">>), PyStr(<<"c">>)}

----------------------------------------------------------------------------
(* DigimonEvolutionService *)

\* The values of ['Evolutions'] + [col for col in row.index if 'Unnamed' in col]
evolution_columns(row) == <<row.Evolutions>> \o row.Unnamed

\* Faulty variant: the value is appended as written, not stripped.
RECURSIVE CollectEvolutions_nostrip(_)
CollectEvolutions_nostrip(values) ==
    IF values = <<>> THEN <<>>
    ELSE LET value == Head(values)
             rest == CollectEvolutions_nostrip(Tail(values))
         IN IF notna(value) /\ strip(str(value)) # PyStr(<<>>)
            THEN <<str(value)>> \o rest
            ELSE rest

RECURSIVE CollectEvolutions(_)
CollectEvolutions(values) ==
    IF values = <<>> THEN <<>>
    ELSE LET value == Head(values)
             rest == CollectEvolutions(Tail(values))
         IN IF notna(value) /\ strip(str(value)) # PyStr(<<>>)
            THEN <<strip(str(value))>> \o rest
            ELSE rest

get_evolutions_from_row(row) == CollectEvolutions(evolution_columns(row))

\* Faulty variant: the name asked for is compared as written.
EvolvesInto_nolower(row, digimon_name) ==
    LET evolutions == get_evolutions_from_row(row)
    IN \E i \in 1..Len(evolutions) : digimon_name = lower(evolutions[i])

\* any(digimon_name_lower == evo.lower() for evo in evolutions)
EvolvesInto(row, digimon_name) ==
    LET evolutions == get_evolutions_from_row(row)
    IN \E i \in 1..Len(evolutions) : lower(digimon_name) = lower(evolutions[i])

\* Faulty variant: a missing number becomes 0.
RowEntry_zero(row) ==
    [name |-> row.Name,
     stage |-> row.Stage,
     number |-> IF notna(row.Number) THEN int(row.Number) ELSE PyInt(0)]

\* The dictionary built from a row of the table.
RowEntry(row) ==
    [name |-> row.Name,
     stage |-> row.Stage,
     number |-> IF notna(row.Number) THEN int(row.Number) ELSE None]

\* Faulty variant: one entry per matching successor slot, not per row.
RECURSIVE PreviousPerEdge(_, _)
PreviousPerEdge(table, digimon_name) ==
    IF table = <<>> THEN <<>>
    ELSE LET row == Head(table)
             hits == SelectSeq(get_evolutions_from_row(row),
                               LAMBDA evo : lower(digimon_name) = lower(evo))
         IN [i \in 1..Len(hits) |-> RowEntry(row)]
            \o PreviousPerEdge(Tail(table), digimon_name)

find_previous_evolutions_peredge(table, digimon_name) ==
    PreviousPerEdge(table, digimon_name)

find_previous_evolutions(table, digimon_name) ==
    LET rows == SelectSeq(table, LAMBDA row : EvolvesInto(row, digimon_name))
    IN [i \in 1..Len(rows) |-> RowEntry(rows[i])]

\* Faulty variant: the queried name is compared as written.
RowsByName_exact(table, name) ==
    SelectSeq(table, LAMBDA row : lower(row.Name) = name)

\* self.df[self.df['Name'].str.lower() == name.lower()]
RowsByName(table, name) ==
    SelectSeq(table, LAMBDA row : lower(row.Name) = lower(name))

\* Faulty variant: a dangling name is reported in lower case.
NextEntry_lowerstub(table, evo_name) ==
    LET evo_data == RowsByName(table, evo_name)
    IN IF evo_data # <<>>
       THEN RowEntry(evo_data[1])
       ELSE [name |-> lower(evo_name), stage |-> None, number |-> None]

\* Faulty variant: the last matching row is taken (iloc[-1]).
NextEntry_last(table, evo_name) ==
    LET evo_data == RowsByName(table, evo_name)
    IN IF evo_data # <<>>
       THEN RowEntry(evo_data[Len(evo_data)])
       ELSE [name |-> evo_name, stage |-> None, number |-> None]

NextEntry(table, evo_name) ==
    LET evo_data == RowsByName(table, evo_name)
    IN IF evo_data # <<>>
       THEN RowEntry(evo_data[1])
       ELSE [name |-> evo_name, stage |-> None, number |-> None]

\* Faulty variant: each entry is inserted at the front of the list.
find_next_evolutions_reversed(table, digimon_row) ==
    LET evolutions_names == get_evolutions_from_row(digimon_row)
        n == Len(evolutions_names)
    IN [i \in 1..n |-> NextEntry(table, evolutions_names[n + 1 - i])]

find_next_evolutions(table, digimon_row) ==
    LET evolutions_names == get_evolutions_from_row(digimon_row)
    IN [i \in 1..Len(evolutions_names) |-> NextEntry(table, evolutions_names[i])]

\* One element of `results`: the lineage of one matching row.
LineageEntry(table, digimon_row) ==
    [currentDigimon |->
        [name |-> digimon_row.Name,
         number |-> IF notna(digimon_row.Number)
                    THEN int(digimon_row.Number) ELSE None,
         stage |-> digimon_row.Stage,
         attribute |-> digimon_row.Attribute],
     preEvolutions |-> find_previous_evolutions(table, digimon_row.Name),
     postEvolutions |-> find_next_evolutions(table, digimon_row)]

\* json.dumps of one value: None is written as null.
JsonNull == [t |-> "null"]
json_value(x) == IF x.t = "None" THEN JsonNull ELSE x

json_entries(entries) ==
    [i \in 1..Len(entries) |->
        [name |-> json_value(entries[i].name),
         stage |-> json_value(entries[i].stage),
         number |-> json_value(entries[i].number)]]

json_result(result) ==
    [currentDigimon |->
        [name |-> json_value(result.currentDigimon.name),
         number |-> json_value(result.currentDigimon.number),
         stage |-> json_value(result.currentDigimon.stage),
         attribute |-> json_value(result.currentDigimon.attribute)],
     preEvolutions |-> json_entries(result.preEvolutions),
     postEvolutions |-> json_entries(result.postEvolutions)]

\* Faulty variant: the message carries the lowered name.
get_evolution_line_lowered(table, digimon_name) ==
    LET digimon_matches == RowsByName(table, digimon_name)
        results == [i \in 1..Len(digimon_matches) |->
                        LineageEntry(table, digimon_matches[i])]
    IN IF digimon_matches = <<>>
       THEN [error |-> TRUE,
             message |-> <<"Digimon not found: ", lower(digimon_name)>>]
       ELSE IF Len(results) = 1
            THEN json_result(results[1])
            ELSE [message |-> <<"Found ", Len(results), " results for: ",
                                lower(digimon_name)>>,
                  results |-> [i \in 1..Len(results) |->
                                   json_result(results[i])]]

\* Faulty variant: several matches are collapsed to the first.
get_evolution_line_first(table, digimon_name) ==
    LET digimon_matches == RowsByName(table, digimon_name)
        results == [i \in 1..Len(digimon_matches) |->
                        LineageEntry(table, digimon_matches[i])]
    IN IF digimon_matches = <<>>
       THEN [error |-> TRUE,
             message |-> <<"Digimon not found: ", digimon_name>>]
       ELSE json_result(results[1])

\* The JSON document get_evolution_line returns, as a tree.  A message built
\* by an f-string is the tuple of its parts.
get_evolution_line(table, digimon_name) ==
    LET digimon_matches == RowsByName(table, digimon_name)
        results == [i \in 1..Len(digimon_matches) |->
                        LineageEntry(table, digimon_matches[i])]
    IN IF digimon_matches = <<>>
       THEN [error |-> TRUE,
             message |-> <<"Digimon not found: ", digimon_name>>]
       ELSE IF Len(results) = 1
            THEN json_result(results[1])
            ELSE [message |-> <<"Found ", Len(results), " results for: ",
                                digimon_name>>,
                  results |-> [i \in 1..Len(results) |->
                                   json_result(results[i])]]

\* json.loads of one value: null is read as None.
py_value(x) == IF x.t = "null" THEN None ELSE x

py_entries(entries) ==
    [i \in 1..Len(entries) |->
        [name |-> py_value(entries[i].name),
         stage |-> py_value(entries[i].stage),
         number |-> py_value(entries[i].number)]]

py_result(result) ==
    [currentDigimon |->
        [name |-> py_value(result.currentDigimon.name),
         number |-> py_value(result.currentDigimon.number),
         stage |-> py_value(result.currentDigimon.stage),
         attribute |-> py_value(result.currentDigimon.attribute)],
     preEvolutions |-> py_entries(result.preEvolutions),
     postEvolutions |-> py_entries(result.postEvolutions)]

\* json.loads of a document of get_evolution_line
json_loads(doc) ==
    IF "error" \in DOMAIN doc THEN doc
    ELSE IF "results" \in DOMAIN doc
    THEN [message |-> doc.message,
          results |-> [i \in 1..Len(doc.results) |-> py_result(doc.results[i])]]
    ELSE py_result(doc)

get_evolution_line_dict(table, digimon_name) ==
    json_loads(get_evolution_line(table, digimon_name))

----------------------------------------------------------------------------
(* Loading *)

\* base_columns, in the order the code checks them
base_columns == <<"Number", "Name", "Stage", "Attribute">>
BaseColumns == {base_columns[i] : i \in 1..Len(base_columns)}

\* The tables of the sheets the serving process is started on.  The handlers
\* branch on how many rows a name has and on the successors of a row, never
\* on Number or Stage: these sheets hold rows without a number.
SheetTables == {t \in Tables : \A i \in 1..Len(t) : t[i].Number = NaN}

\* The files the service may be pointed at.  A file pd.read_excel cannot
\* read; a sheet lacking some of the base columns (its rows are never looked
\* at); a sheet with all of them and a table of rows.
Sources ==
    {[error |-> TRUE, columns |-> {}, rows |-> <<>>]}
    \cup {[error |-> FALSE, columns |-> c, rows |-> <<>>] :
              c \in (SUBSET BaseColumns) \ {BaseColumns}}
    \cup {[error |-> FALSE, columns |-> BaseColumns, rows |-> t] :
              t \in SheetTables}

\* [col for col in base_columns if col not in self.df.columns]
missing_columns(src) ==
    SelectSeq(base_columns, LAMBDA col : col \notin src.columns)

\* Faulty variant: the columns are not verified.
load_data_unverified(src) ==
    IF src.error
    THEN [raised |-> TRUE,
          message |-> <<"Error loading Excel file: ", <<"read_excel failed">>>>,
          df |-> None]
    ELSE [raised |-> FALSE, message |-> <<>>, df |-> src.rows]

\* DigimonEvolutionService(excel_path): _load_data either leaves self.df
\* loaded or raises Exception("Error loading Excel file: ...").
load_data(src) ==
    IF src.error
    THEN [raised |-> TRUE,
          message |-> <<"Error loading Excel file: ", <<"read_excel failed">>>>,
          df |-> None]
    ELSE IF missing_columns(src) # <<>>
    THEN [raised |-> TRUE,
          message |-> <<"Error loading Excel file: ",
                        <<"Missing required columns: ", missing_columns(src)>>>>,
          df |-> None]
    ELSE [raised |-> FALSE, message |-> <<>>, df |-> src.rows]

\* The sheet a loaded table was read from.
SourceOf(table) == [error |-> FALSE, columns |-> BaseColumns, rows |-> table]

----------------------------------------------------------------------------
(* api.py: the request handlers *)

\* What a handler answers: a status with the detail of an HTTPException or
\* the body returned, and whether it called the service.
NotInitialized ==
    [status |-> 503, detail |-> <<"Service not initialized">>, body |-> <<>>,
     called |-> FALSE]
HTTPException(status_code, detail) ==
    [status |-> status_code, detail |-> detail, body |-> <<>>, called |-> TRUE]
Returned(body) ==
    [status |-> 200, detail |-> <<>>, body |-> body, called |-> TRUE]

\* 'error' in result and result['error']
IsError(result) == "error" \in DOMAIN result /\ result.error

\* result[key] raises KeyError, which the handler's `except Exception` turns
\* into a 500.
KeyError(key) == HTTPException(500, <<"Error: ", key>>)

\* The response_model of /api/evolution/{digimon_name}: EvolutionLineResponse
ValidBase(entries) ==
    \A i \in 1..Len(entries) :
        /\ entries[i].name.t = "str"
        /\ entries[i].stage.t = "str"
        /\ entries[i].number.t \in {"int", "None"}

ValidEvolutionLine(result) ==
    /\ {"currentDigimon", "preEvolutions", "postEvolutions"} \subseteq DOMAIN result
    /\ result.currentDigimon.name.t = "str"
    /\ result.currentDigimon.number.t \in {"int", "None"}
    /\ result.currentDigimon.stage.t = "str"
    /\ result.currentDigimon.attribute.t = "str"
    /\ ValidBase(result.preEvolutions)
    /\ ValidBase(result.postEvolutions)

health_check(svc) ==
    IF svc = None THEN NotInitialized
    ELSE [status |-> 200, detail |-> <<>>,
          body |-> [status |-> "healthy", service |-> "online"],
          called |-> FALSE]

get_evolution(svc, table, digimon_name) ==
    IF svc = None THEN NotInitialized
    ELSE LET result == json_loads(get_evolution_line(table, digimon_name))
         IN IF IsError(result) THEN HTTPException(404, result.message)
            ELSE IF ValidEvolutionLine(result) THEN Returned(result)
            ELSE [status |-> 500, detail |-> <<"Internal Server Error">>,
                  body |-> <<>>, called |-> TRUE]

get_next_evolutions(svc, table, digimon_name) ==
    IF svc = None THEN NotInitialized
    ELSE LET result == get_evolution_line_dict(table, digimon_name)
         IN IF IsError(result) THEN HTTPException(404, result.message)
            ELSE IF "postEvolutions" \notin DOMAIN result
            THEN KeyError("'postEvolutions'")
            ELSE LET next_evolutions == result.postEvolutions
                 IN Returned([digimon |-> digimon_name,
                              total |-> Len(next_evolutions),
                              evolutions |-> next_evolutions])

get_previous_evolutions(svc, table, digimon_name) ==
    IF svc = None THEN NotInitialized
    ELSE LET result == get_evolution_line_dict(table, digimon_name)
         IN IF IsError(result) THEN HTTPException(404, result.message)
            ELSE IF "preEvolutions" \notin DOMAIN result
            THEN KeyError("'preEvolutions'")
            ELSE LET previous_evolutions == result.preEvolutions
                 IN Returned([digimon |-> digimon_name,
                              total |-> Len(previous_evolutions),
                              evolutions |-> previous_evolutions])

\* Faulty variant: no `except HTTPException: raise` before the catch-all.
get_evolution_summary_swallowed(svc, table, digimon_name) ==
    IF svc = None THEN NotInitialized
    ELSE LET result == get_evolution_line_dict(table, digimon_name)
         IN IF IsError(result) THEN HTTPException(500, <<"Error: ", "404">>)
            ELSE IF "currentDigimon" \notin DOMAIN result
            THEN KeyError("'currentDigimon'")
            ELSE Returned(
                    [digimon |-> [name |-> result.currentDigimon.name,
                                  stage |-> result.currentDigimon.stage,
                                  attribute |-> result.currentDigimon.attribute],
                     summary |->
                        [total_pre_evolutions |-> Len(result.preEvolutions),
                         total_post_evolutions |-> Len(result.postEvolutions)]])

get_evolution_summary(svc, table, digimon_name) ==
    IF svc = None THEN NotInitialized
    ELSE LET result == get_evolution_line_dict(table, digimon_name)
         IN IF IsError(result) THEN HTTPException(404, result.message)
            ELSE IF "currentDigimon" \notin DOMAIN result
            THEN KeyError("'currentDigimon'")
            ELSE Returned(
                    [digimon |-> [name |-> result.currentDigimon.name,
                                  stage |-> result.currentDigimon.stage,
                                  attribute |-> result.currentDigimon.attribute],
                     summary |->
                        [total_pre_evolutions |-> Len(result.preEvolutions),
                         total_post_evolutions |-> Len(result.postEvolutions)]])

\* What can_evolve answers once the service is there.
CanEvolveAnswer(table, from_digimon, to_digimon) ==
    LET result == get_evolution_line_dict(table, from_digimon)
    IN IF IsError(result)
       THEN HTTPException(404, <<"Digimon not found: ", from_digimon>>)
       ELSE IF "postEvolutions" \notin DOMAIN result
       THEN KeyError("'postEvolutions'")
       ELSE LET next_evolutions == result.postEvolutions
                evolution_names ==
                    {lower(next_evolutions[i].name) :
                        i \in 1..Len(next_evolutions)}
                can_evolve_to == lower(to_digimon) \in evolution_names
            IN Returned([from |-> from_digimon, to |-> to_digimon,
                         can_evolve |-> can_evolve_to,
                         message |-> <<from_digimon,
                                       IF can_evolve_to THEN "can" ELSE "cannot",
                                       to_digimon>>])

\* Faulty variant: the handler does not look at `service` first, and the
\* AttributeError of None.get_evolution_line_dict becomes a 500.
can_evolve_unguarded(svc, table, from_digimon, to_digimon) ==
    IF svc = None
    THEN [status |-> 500, detail |-> <<"Error: ", "'NoneType'">>,
          body |-> <<>>, called |-> FALSE]
    ELSE CanEvolveAnswer(table, from_digimon, to_digimon)

can_evolve(svc, table, from_digimon, to_digimon) ==
    IF svc = None THEN NotInitialized
    ELSE CanEvolveAnswer(table, from_digimon, to_digimon)

----------------------------------------------------------------------------
(* The service as a state machine *)

NoCall == [op |-> "none", arg |-> None, row |-> 0, out |-> <<>>]
Unpinned == [set |-> FALSE, arg |-> None, out |-> <<>>]

\* The service after __init__, used as a library (test_json.py, main.py): the
\* table is loaded, nothing was asked yet, and api.py plays no part.
Init ==
    /\ df \in Tables
    /\ last = NoCall
    /\ pinned = Unpinned
    /\ source = SourceOf(df)
    /\ service = None
    /\ started = FALSE

\* Faulty variant: the Name column is lowered in place by the lookup.
CallGetEvolutionLine_inplace(digimon_name) ==
    /\ last' = [op |-> "get_evolution_line", arg |-> digimon_name, row |-> 0,
                out |-> get_evolution_line(df, digimon_name)]
    /\ df' = [i \in 1..Len(df) |-> [df[i] EXCEPT !.Name = lower(df[i].Name)]]

\* service.get_evolution_line(digimon_name): reads self.df, assigns nothing.
CallGetEvolutionLine(digimon_name) ==
    /\ last' = [op |-> "get_evolution_line", arg |-> digimon_name, row |-> 0,
                out |-> get_evolution_line(df, digimon_name)]
    /\ df' = df

GetEvolutionLine ==
    \E digimon_name \in Queries :
        /\ CallGetEvolutionLine(digimon_name)
        /\ pinned' = pinned
        /\ UNCHANGED api

\* The same call, with the observer keeping its argument and result.
GetEvolutionLinePinned ==
    \E digimon_name \in Queries :
        /\ ~pinned.set
        /\ CallGetEvolutionLine(digimon_name)
        /\ pinned' = [set |-> TRUE, arg |-> digimon_name, out |-> last'.out]
        /\ UNCHANGED api

\* service._find_previous_evolutions(digimon_name)
FindPreviousEvolutions ==
    \E digimon_name \in Queries :
        /\ last' = [op |-> "find_previous_evolutions", arg |-> digimon_name,
                    row |-> 0,
                    out |-> find_previous_evolutions(df, digimon_name)]
        /\ UNCHANGED <<df, pinned, api>>

\* service._find_next_evolutions(digimon_row), for a row of the table
FindNextEvolutions ==
    \E i \in 1..Len(df) :
        /\ last' = [op |-> "find_next_evolutions", arg |-> None, row |-> i,
                    out |-> find_next_evolutions(df, df[i])]
        /\ UNCHANGED <<df, pinned, api>>

\* service._get_evolutions_from_row(row), for a row of the table
GetEvolutionsFromRow ==
    \E i \in 1..Len(df) :
        /\ last' = [op |-> "get_evolutions_from_row", arg |-> None, row |-> i,
                    out |-> get_evolutions_from_row(df[i])]
        /\ UNCHANGED <<df, pinned, api>>

Next ==
    \/ GetEvolutionLine
    \/ FindPreviousEvolutions
    \/ FindNextEvolutions
    \/ GetEvolutionsFromRow

Spec == Init /\ [][Next]_vars

\* Repeated get_evolution_line calls, one of them kept by the observer.
NextRepeat ==
    \/ GetEvolutionLine
    \/ GetEvolutionLinePinned

SpecRepeat == Init /\ [][NextRepeat]_vars

----------------------------------------------------------------------------
(* api.py as a state machine *)

\* The instance held by the global `service`.
Instance == [t |-> "DigimonEvolutionService"]

\* The names asked as the target of /api/can-evolve.
Targets == {PyStr(<<"A">>), PyStr(<<"b">>)}

\* The process before its startup event: `service = None`, no instance yet.
InitApi ==
    /\ source \in Sources
    /\ df = None
    /\ service = None
    /\ started = FALSE
    /\ last = NoCall
    /\ pinned = Unpinned

\* startup_event(): the constructor either returns the instance, which is
\* assigned to `service`, or raises, which is printed and leaves it None.
StartupEvent ==
    /\ ~started
    /\ LET loaded == load_data(source)
       IN /\ service' = IF loaded.raised THEN service ELSE Instance
          /\ df' = loaded.df
          /\ last' = [op |-> "startup_event", arg |-> None, row |-> 0,
                      out |-> loaded]
    /\ started' = TRUE
    /\ UNCHANGED <<pinned, source>>

\* A request served: the handler's answer is recorded, nothing is assigned.
Served(op, arg, response) ==
    /\ last' = [op |-> op, arg |-> arg, row |-> 0, out |-> response]
    /\ UNCHANGED <<df, pinned, api>>

HealthCheck ==
    /\ started
    /\ Served("health_check", None, health_check(service))

GetEvolution ==
    \E digimon_name \in Queries :
        /\ started
        /\ Served("get_evolution", digimon_name,
               get_evolution(service, df, digimon_name))

GetNextEvolutions ==
    \E digimon_name \in Queries :
        /\ started
        /\ Served("get_next_evolutions", digimon_name,
               get_next_evolutions(service, df, digimon_name))

GetPreviousEvolutions ==
    \E digimon_name \in Queries :
        /\ started
        /\ Served("get_previous_evolutions", digimon_name,
               get_previous_evolutions(service, df, digimon_name))

GetEvolutionSummary ==
    \E digimon_name \in Queries :
        /\ started
        /\ Served("get_evolution_summary", digimon_name,
               get_evolution_summary(service, df, digimon_name))

CanEvolve ==
    \E from_digimon \in Queries, to_digimon \in Targets :
        /\ started
        /\ Served("can_evolve", from_digimon,
               can_evolve(service, df, from_digimon, to_digimon))

NextApi ==
    \/ StartupEvent
    \/ HealthCheck
    \/ GetEvolution
    \/ GetNextEvolutions
    \/ GetPreviousEvolutions
    \/ GetEvolutionSummary
    \/ CanEvolve

SpecApi == InitApi /\ [][NextApi]_vars

----------------------------------------------------------------------------
(* Vocabulary of the properties, stated without the service's own helpers *)

CasePairs == {{"a", "A"}, {"b", "B"}, {"c", "C"}}

\* Two names are equal up to letter case.
SameName(x, y) ==
    /\ Len(x.v) = Len(y.v)
    /\ \A i \in 1..Len(x.v) : x.v[i] = y.v[i] \/ {x.v[i], y.v[i]} \in CasePairs

\* The rows of the table named X, in table order.
RowsNamed(X) == SelectSeq(df, LAMBDA row : SameName(row.Name, X))

\* Row `row` lists X among its successor names.
Lists(row, X) ==
    LET names == get_evolutions_from_row(row)
    IN \E k \in 1..Len(names) : SameName(names[k], X)

\* The rows of the table that list X, in table order.
RowsListing(X) == SelectSeq(df, LAMBDA row : Lists(row, X))

\* What is reported of a row: its own name and stage, and its number or `null`.
Brief(row, null) ==
    [name |-> row.Name,
     stage |-> row.Stage,
     number |-> IF row.Number = NaN THEN null ELSE row.Number]

\* How a reader of the document tells the outcomes apart (main.py).
Kind(out) ==
    IF "error" \in DOMAIN out THEN "NotFound"
    ELSE IF "results" \in DOMAIN out THEN "Multiple"
    ELSE "Single"

Entries(out) ==
    IF "error" \in DOMAIN out THEN <<>>
    ELSE IF "results" \in DOMAIN out THEN out.results
    ELSE <<out>>

Resolved == last.op = "get_evolution_line"
FoundPrevious == last.op = "find_previous_evolutions"
FoundNext == last.op = "find_next_evolutions"

----------------------------------------------------------------------------
(* C1 *)

\* C1: when no row is named X up to letter case, get_evolution_line(X)
\* returns the not-found document, whose message carries X as it was queried.
C1_NotFoundCarriesQuery ==
    (Resolved /\ RowsNamed(last.arg) = <<>>)
        => last.out = [error |-> TRUE,
                       message |-> <<"Digimon not found: ", last.arg>>]

\* A table with rows, asked for a name in upper case that none of them has.
C1_Witness ==
    /\ Resolved
    /\ df # <<>>
    /\ RowsNamed(last.arg) = <<>>
    /\ last.arg = PyStr(<<"B">>)
    /\ Kind(last.out) = "NotFound"

----------------------------------------------------------------------------
(* C2 *)

\* C2: two get_evolution_line calls whose names differ only in letter case
\* give the same kind of outcome and the same entries.
C2_CaseInsensitive ==
    (pinned.set /\ Resolved /\ SameName(pinned.arg, last.arg))
        => /\ Kind(last.out) = Kind(pinned.out)
           /\ Entries(last.out) = Entries(pinned.out)

\* Two calls with names of different casing, both finding a row.
C2_Witness ==
    /\ pinned.set
    /\ Resolved
    /\ SameName(pinned.arg, last.arg)
    /\ pinned.arg # last.arg
    /\ Kind(last.out) # "NotFound"

----------------------------------------------------------------------------
(* C3 *)

\* The lineage entry of a row, as the document gives it.
Lineage(row) ==
    [currentDigimon |->
        [name |-> row.Name,
         number |-> IF row.Number = NaN THEN JsonNull ELSE row.Number,
         stage |-> row.Stage,
         attribute |-> row.Attribute],
     preEvolutions |-> json_entries(find_previous_evolutions(df, row.Name)),
     postEvolutions |-> json_entries(find_next_evolutions(df, row))]

\* C3: get_evolution_line(X) gives one lineage entry per row named X: a single
\* entry when one row matches, and when k > 1 rows match a Multiple document
\* with count k and k entries, the j-th of the j-th matching row.
C3_OneEntryPerMatch ==
    Resolved =>
        LET matches == RowsNamed(last.arg)
            k == Len(matches)
        IN /\ k = 1 => last.out = Lineage(matches[1])
           /\ k > 1 =>
                /\ Kind(last.out) = "Multiple"
                /\ last.out.message[2] = k
                /\ Len(last.out.results) = k
                /\ \A j \in 1..k : last.out.results[j] = Lineage(matches[j])

\* Two rows of one name up to case, in different forms, both reported.
C3_Witness ==
    /\ Resolved
    /\ Len(RowsNamed(last.arg)) = 2
    /\ df[1].Number # df[2].Number
    /\ Kind(last.out) = "Multiple"
    /\ Len(last.out.results) = 2

----------------------------------------------------------------------------
(* C4 *)

\* C4: _find_previous_evolutions(name) returns, in table order, exactly one
\* entry for each row that lists the name, carrying that row's own name, stage
\* and number, and nothing else.
C4_OnePredecessorPerRow ==
    FoundPrevious =>
        LET rows == RowsListing(last.arg)
        IN /\ Len(last.out) = Len(rows)
           /\ \A j \in 1..Len(rows) : last.out[j] = Brief(rows[j], None)

\* A row lists the name in both of its successor cells, next to a row that
\* does not list it, and is returned once.
C4_Witness ==
    /\ FoundPrevious
    /\ Len(df) = 2
    /\ ~Lists(df[1], last.arg)
    /\ LET names == get_evolutions_from_row(df[2])
       IN /\ Len(names) = 2
          /\ SameName(names[1], last.arg)
          /\ SameName(names[2], last.arg)
    /\ Len(last.out) = 1

----------------------------------------------------------------------------
(* C5 *)

\* C5: for every row R and every successor name S extracted from R,
\* _find_previous_evolutions(S) holds an entry with R's name.
C5_EdgeExists ==
    FoundPrevious =>
        \A i \in 1..Len(df) :
            LET names == get_evolutions_from_row(df[i])
            IN (\E k \in 1..Len(names) : names[k] = last.arg)
                   => \E j \in 1..Len(last.out) : last.out[j].name = df[i].Name

\* The name asked for is a successor name as a row has it, in upper case.
C5_Witness ==
    /\ FoundPrevious
    /\ last.arg = PyStr(<<"A">>)
    /\ \E i \in 1..Len(df) :
           LET names == get_evolutions_from_row(df[i])
           IN /\ \E k \in 1..Len(names) : names[k] = last.arg
              /\ \E j \in 1..Len(last.out) : last.out[j].name = df[i].Name

----------------------------------------------------------------------------
(* C6 *)

\* C6: for every successor name S of row R that no row is named,
\* _find_next_evolutions(R) holds the entry {name: S, stage: None, number: None}.
C6_StubSuccessor ==
    FoundNext =>
        LET names == get_evolutions_from_row(df[last.row])
        IN \A k \in 1..Len(names) :
               RowsNamed(names[k]) = <<>>
                   => \E j \in 1..Len(last.out) :
                          last.out[j] = [name |-> names[k], stage |-> None,
                                         number |-> None]

\* A row with a dangling successor name and one that a row has.
C6_Witness ==
    /\ FoundNext
    /\ LET names == get_evolutions_from_row(df[last.row])
       IN /\ Len(names) = 2
          /\ RowsNamed(names[1]) = <<>>
          /\ RowsNamed(names[2]) # <<>>
    /\ last.out[1].stage = None

----------------------------------------------------------------------------
(* C7 *)

\* C7: for every successor name S of row R that one or more rows are named,
\* the entry of S in _find_next_evolutions(R) carries the name, stage and
\* number of the first such row in table order.
C7_FirstMatch ==
    FoundNext =>
        LET names == get_evolutions_from_row(df[last.row])
        IN /\ Len(last.out) = Len(names)
           /\ \A k \in 1..Len(names) :
                  LET rows == RowsNamed(names[k])
                  IN rows # <<>> => last.out[k] = Brief(rows[1], None)

\* The successor name matches two rows of different casing and form, and is
\* written in the casing of neither the first row nor the referencing cell.
C7_Witness ==
    /\ FoundNext
    /\ Len(df) = 2
    /\ df[1].Name # df[2].Name
    /\ df[1].Number # df[2].Number
    /\ LET names == get_evolutions_from_row(df[last.row])
       IN /\ names # <<>>
          /\ Len(RowsNamed(names[1])) = 2
          /\ names[1] # df[1].Name
          /\ last.out[1] = Brief(df[1], None)

----------------------------------------------------------------------------
(* C8 *)

\* C8: _find_next_evolutions(R) has one entry per extracted successor name, in
\* the same order (the i-th entry is named as the i-th name up to case); with
\* no successor names it is the empty list.
C8_OrderPreserved ==
    FoundNext =>
        LET names == get_evolutions_from_row(df[last.row])
        IN /\ Len(last.out) = Len(names)
           /\ \A k \in 1..Len(names) : SameName(last.out[k].name, names[k])
           /\ names = <<>> => last.out = <<>>

\* Two different successor names, reported in their order.
C8_Witness ==
    /\ FoundNext
    /\ LET names == get_evolutions_from_row(df[last.row])
       IN /\ Len(names) = 2
          /\ ~SameName(names[1], names[2])
    /\ Len(last.out) = 2

\* A row whose successor cells are empty or blank.
C8_WitnessEmpty ==
    /\ FoundNext
    /\ get_evolutions_from_row(df[last.row]) = <<>>
    /\ last.out = <<>>

----------------------------------------------------------------------------
(* C9 *)

\* The number the document gives for a row: null when the row has none.
JsonNumber(row) == IF row.Number = NaN THEN JsonNull ELSE row.Number

\* C9: in the document of get_evolution_line a row's missing number is null,
\* and a present one is that integer, in the current entry, in every
\* pre-evolution entry and in every post-evolution entry (whose row is the
\* first named as the successor; a dangling successor has no row and is null).
C9_NumberOrNull ==
    Resolved =>
        LET matches == RowsNamed(last.arg)
            entries == Entries(last.out)
        IN /\ Len(entries) = Len(matches)
           /\ \A j \in 1..Len(matches) :
                LET row == matches[j]
                    pre == RowsListing(row.Name)
                    names == get_evolutions_from_row(row)
                IN /\ entries[j].currentDigimon.number = JsonNumber(row)
                   /\ Len(entries[j].preEvolutions) = Len(pre)
                   /\ \A p \in 1..Len(pre) :
                          entries[j].preEvolutions[p].number = JsonNumber(pre[p])
                   /\ Len(entries[j].postEvolutions) = Len(names)
                   /\ \A k \in 1..Len(names) :
                          entries[j].postEvolutions[k].number =
                              IF RowsNamed(names[k]) = <<>> THEN JsonNull
                              ELSE JsonNumber(RowsNamed(names[k])[1])

\* A row numbered 0 whose pre-evolution has no number: 0 and null side by side.
C9_Witness ==
    /\ Resolved
    /\ Kind(last.out) = "Single"
    /\ last.out.currentDigimon.number = PyInt(0)
    /\ last.out.preEvolutions # <<>>
    /\ last.out.preEvolutions[1].number = JsonNull
    /\ last.out.postEvolutions # <<>>

----------------------------------------------------------------------------
(* C10 *)

\* C10: a get_evolution_line(X) call returns what an earlier call for X
\* returned, whatever other names were asked in between.
C10_Idempotent ==
    (pinned.set /\ Resolved /\ pinned.arg = last.arg) => last.out = pinned.out

\* The kept call was for a name in upper case that a row has, and the same name
\* is asked again after a call for another name.
C10_Witness ==
    /\ pinned.set
    /\ Resolved
    /\ pinned.arg = last.arg
    /\ pinned.arg = PyStr(<<"A">>)
    /\ Kind(pinned.out) # "NotFound"

----------------------------------------------------------------------------
(* C14 *)

Extracted == last.op = "get_evolutions_from_row"

\* The text of a cell without the blanks around it.
Trimmed(s) ==
    LET inked == {i \in 1..Len(s) : s[i] # " "}
    IN IF inked = {} THEN <<>>
       ELSE SubSeq(s, CHOOSE i \in inked : \A j \in inked : i <= j,
                      CHOOSE i \in inked : \A j \in inked : j <= i)

\* The successor-bearing cells of a row that hold a name, in field order.
NamedCells(row) ==
    SelectSeq(<<row.Evolutions>> \o row.Unnamed,
              LAMBDA cell : cell # NaN /\ \E i \in 1..Len(cell.v) : cell.v[i] # " ")

\* C14: _get_evolutions_from_row(row) returns, in field order (Evolutions,
\* then the overflow columns), the trimmed value of every successor cell that
\* is neither empty nor blank, and nothing else: no entry is the empty string
\* or starts or ends with a blank, and no other column contributes.
C14_ExtractTrimmed ==
    Extracted =>
        LET cells == NamedCells(df[last.row])
        IN /\ Len(last.out) = Len(cells)
           /\ \A k \in 1..Len(cells) : last.out[k] = PyStr(Trimmed(cells[k].v))
           /\ \A k \in 1..Len(last.out) :
                  /\ last.out[k].v # <<>>
                  /\ last.out[k].v[1] # " "
                  /\ last.out[k].v[Len(last.out[k].v)] # " "

\* A row with a trailing blank in Evolutions and a leading blank in the
\* overflow cell: both names are returned trimmed, in field order.
C14_Witness ==
    /\ Extracted
    /\ df[last.row].Evolutions = PyStr(<<"A", " ">>)
    /\ df[last.row].Unnamed = <<PyStr(<<" ", "a">>)>>
    /\ last.out = <<PyStr(<<"A">>), PyStr(<<"a">>)>>

\* A row whose Evolutions cell is empty and whose overflow cell is blank.
C14_WitnessBlank ==
    /\ Extracted
    /\ df[last.row].Evolutions = NaN
    /\ df[last.row].Unnamed = <<PyStr(<<" ">>)>>
    /\ last.out = <<>>

----------------------------------------------------------------------------
(* C16 *)

\* Row `row` has a successor entry named as X up to letter case.
SucceededBy(row, X) ==
    LET next == find_next_evolutions(df, row)
    IN \E k \in 1..Len(next) : SameName(next[k].name, X)

\* C16: for rows A and B, A is among _find_previous_evolutions(B.name) exactly
\* when _find_next_evolutions(A) has an entry named as B up to case.  Entries
\* do not identify rows, so the rows reported as A is are counted: the entries
\* equal to A's are as many as the rows reported like A that B succeeds.
C16_Duality ==
    (FoundPrevious /\ \E b \in 1..Len(df) : df[b].Name = last.arg) =>
        \A a \in 1..Len(df) :
            Cardinality({j \in 1..Len(last.out) :
                            last.out[j] = Brief(df[a], None)})
                = Cardinality({i \in 1..Len(df) :
                                  /\ Brief(df[i], None) = Brief(df[a], None)
                                  /\ SucceededBy(df[i], last.arg)})

\* B is named in upper case and A lists it in lower case, next to a row that
\* does not: A is a predecessor of B, B is not one of itself.
C16_Witness ==
    /\ FoundPrevious
    /\ Len(df) = 2
    /\ df[2].Name = last.arg
    /\ last.arg = PyStr(<<"A">>)
    /\ SucceededBy(df[1], last.arg)
    /\ ~SucceededBy(df[2], last.arg)
    /\ last.out = <<Brief(df[1], None)>>

----------------------------------------------------------------------------
(* Vocabulary of the serving process *)

\* The file cannot be loaded: it cannot be read, or lacks a base column.
LoadFails(src) ==
    src.error \/ \E col \in {"Name", "Stage", "Attribute", "Number"} :
                     col \notin src.columns

StartedUp == last.op = "startup_event"

Lookups ==
    {"get_evolution", "get_next_evolutions", "get_previous_evolutions",
     "get_evolution_summary", "can_evolve"}

Endpoints == Lookups \cup {"health_check"}

----------------------------------------------------------------------------
(* C11 *)

\* C11: when the file cannot be read or lacks any of Name, Stage, Attribute,
\* Number, constructing the service raises "Error loading Excel file: ...",
\* which for missing columns names exactly the missing ones, and no instance
\* comes to exist.
C11_LoadError ==
    (started /\ LoadFails(source)) =>
        /\ service = None
        /\ df = None
        /\ StartedUp =>
              /\ last.out.raised
              /\ last.out.message[1] = "Error loading Excel file: "
              /\ ~source.error =>
                    LET named == last.out.message[2]
                    IN /\ named[1] = "Missing required columns: "
                       /\ {named[2][i] : i \in 1..Len(named[2])}
                              = {"Name", "Stage", "Attribute", "Number"}
                                    \ source.columns

\* A sheet with Name and Stage but neither Number nor Attribute.
C11_Witness ==
    /\ started
    /\ StartedUp
    /\ ~source.error
    /\ source.columns = {"Name", "Stage"}
    /\ last.out.raised
    /\ last.out.message[2][2] = <<"Number", "Attribute">>

\* A file that cannot be read.
C11_WitnessUnreadable ==
    /\ started
    /\ StartedUp
    /\ source.error
    /\ last.out.raised
    /\ service = None

----------------------------------------------------------------------------
(* C12 *)

\* C12: after a startup whose load failed, `service` is None in every later
\* state, and every request to /health, /api/evolution/{name}, /next,
\* /previous, /summary and /api/can-evolve is answered 503 "Service not
\* initialized" without a call to the service.
C12_NotInitialized ==
    (started /\ LoadFails(source)) =>
        /\ service = None
        /\ last.op \in Endpoints =>
              /\ last.out.status = 503
              /\ last.out.detail = <<"Service not initialized">>
              /\ ~last.out.called

\* `service` never goes back to None or from None to an instance once the
\* startup event has run.
C12_HandleStays == [][started => service' = service]_vars

\* /api/can-evolve asked after a startup on a sheet without a Number column.
C12_Witness ==
    /\ started
    /\ ~source.error
    /\ "Number" \notin source.columns
    /\ last.op = "can_evolve"
    /\ last.out.status = 503

----------------------------------------------------------------------------
(* C13 *)

\* C13: with the service initialised, /api/evolution/{name}, /next,
\* /previous, /summary and /api/can-evolve/{from}/{to} answer 404 whenever no
\* row is named as the name asked (the `from` name) up to case.
C13_NotFoundIs404 ==
    (service # None /\ last.op \in Lookups /\ RowsNamed(last.arg) = <<>>)
        => last.out.status = 404

\* /summary asked for a name no row of a loaded, non-empty table has.
C13_Witness ==
    /\ service # None
    /\ df # <<>>
    /\ last.op = "get_evolution_summary"
    /\ RowsNamed(last.arg) = <<>>
    /\ last.out.status = 404
    /\ last.out.detail = <<"Digimon not found: ", last.arg>>

----------------------------------------------------------------------------
(* C15 *)

\* C15: with the service initialised, /api/evolution/{name}/next for a name
\* that one or several rows have answers 200 with the post-evolutions and a
\* total equal to their number.
C15_NextSucceeds ==
    (service # None /\ last.op = "get_next_evolutions"
        /\ RowsNamed(last.arg) # <<>>)
        => /\ last.out.status = 200
           /\ last.out.body.total = Len(last.out.body.evolutions)

\* The part of C15 the handler keeps: a name that exactly one row has.
C15_NextOfOneRow ==
    (service # None /\ last.op = "get_next_evolutions"
        /\ Len(RowsNamed(last.arg)) = 1)
        => /\ last.out.status = 200
           /\ last.out.body.evolutions
                  = find_next_evolutions(df, RowsNamed(last.arg)[1])
           /\ last.out.body.total = Len(last.out.body.evolutions)

\* What the handler answers for a name that several rows have.
C15_NextOfSeveralRows ==
    (service # None /\ last.op = "get_next_evolutions"
        /\ Len(RowsNamed(last.arg)) > 1)
        => /\ last.out.status = 500
           /\ last.out.detail = <<"Error: ", "'postEvolutions'">>

====
